---- MODULE Spec2Model ----
(***************************************************************************)
(* A model of the stock prediction service of src/ml_api_server.py: the    *)
(* shared StockPredictor (train_model, get_enhanced_signal, predict and    *)
(* the trajectory loop inside predict) and the boundary handler            *)
(* predict_stock.                                                          *)
(*                                                                         *)
(* Numbers are fixed point.  Prices and daily changes are in millionths    *)
(* (1.00 dollar = 1000000), confidences in millionths (1.0 = 1000000),     *)
(* class probabilities in thousandths.  The rounded values the handler     *)
(* returns are in cents (prices) and thousandths (confidences).            *)
(***************************************************************************)
EXTENDS Integers, Sequences, FiniteSets, TLC

VARIABLES
    model,            \* self.model: the classifier and the run that made it
    scaler,           \* self.scaler: the StandardScaler and the run that fitted it
    is_trained,       \* self.is_trained
    feature_columns,  \* self.feature_columns (absent before the first assignment)
    trainRuns,        \* number of train_model runs started so far
    hashKey,          \* the process's string-hash key (fixed at interpreter start)
    clock,            \* the calendar date datetime.now() reports
    last,             \* what the last finished call did and returned
    sim,              \* the trajectory loop in progress (stepwise specification)
    runs,             \* the finished trajectory runs (stepwise specification)
    forecast,         \* one fusion and trajectory (forecast specification)
    frame,            \* the DataFrame train_model builds (labels specification)
    threads,          \* the requests in progress (threads specification)
    db                \* the portfolio database (portfolio specification)

vars == << model, scaler, is_trained, feature_columns, trainRuns, hashKey,
           clock, last, sim, runs, forecast, frame, threads, db >>

----------------------------------------------------------------------------
(* Bounds of the model. *)

\* train_model runs explored in one behaviour
MaxTrainRuns == 2

\* the largest process hash key explored
MaxHashKey == 1

\* calendar dates are 0..MaxDate
MaxDate == 1

\* the longest horizon the stepwise trajectory specification runs
MaxSimDays == 3

----------------------------------------------------------------------------
(* Program constants. *)

\* len(X) < 50
MinRows == 50

\* days < 1 or days > 30
MinDays == 1

MaxDays == 30

Symbols == {"AAPL", "MSFT"}

\* prepare_features: the canonical feature list, in order
FeatureColumnList ==
    << "Open", "High", "Low", "Close", "Volume",
       "RSI", "MACD", "MACD_Signal", "MACD_Hist",
       "BB_Upper", "BB_Lower", "BB_Middle",
       "SMA_20", "SMA_50", "EMA_12", "EMA_26",
       "Volume_SMA", "ROC", "Stoch" >>

\* the columns the data source returns
BarColumns == {"Open", "High", "Low", "Close", "Volume"}

\* calculate_technical_indicators: the columns each statement assigns, in
\* source order
IndicatorSteps ==
    << {"RSI"}, {"MACD"}, {"MACD_Signal"}, {"MACD_Hist"},
       {"BB_Upper"}, {"BB_Lower"}, {"BB_Middle"},
       {"SMA_20"}, {"SMA_50"}, {"EMA_12"}, {"EMA_26"},
       {"Volume_SMA"}, {"ROC"}, {"Stoch"} >>

RECURSIVE ColumnsOfSteps(_)
ColumnsOfSteps(n) ==
    IF n = 0 THEN {} ELSE IndicatorSteps[n] \cup ColumnsOfSteps(n - 1)

\* calculate_technical_indicators(data): the statements run in order inside one
\* try block; when statement failAt raises, the except clause returns the frame
\* with the columns assigned so far (failAt = 0: nothing raises).
calculate_technical_indicators(cols, failAt) ==
    cols \cup ColumnsOfSteps(IF failAt = 0 THEN Len(IndicatorSteps) ELSE failAt - 1)

\* prepare_features(data): the canonical names present in the frame, in
\* canonical order
prepare_features(cols) ==
    SelectSeq(FeatureColumnList, LAMBDA c : c \in cols)

----------------------------------------------------------------------------
(* The DataFrame of train_model: the closes of the rows, the columns present, *)
(* and for each row the columns whose value is undefined.  Closes are in     *)
(* cents here; a price change is the fraction num / den.                     *)

\* def generate_labels(self, data, days_ahead=1)
days_ahead == 1

\* buy_threshold = 0.02 and sell_threshold = -0.02, in hundredths
buy_threshold == 2
sell_threshold == -2

\* an undefined price change
NoChange == [nan |-> TRUE, num |-> 0, den |-> 1]

\* data['Close'].shift(-days_ahead) at row i: the close days_ahead rows later,
\* undefined (-1) past the end of the series
FuturePrice(close, i) ==
    IF i + days_ahead <= Len(close) THEN close[i + days_ahead] ELSE 0 - 1

\* (data['Future_Price'] - data['Close']) / data['Close'] at one row
PriceChange(close, future) ==
    IF future < 0 THEN NoChange
    ELSE [nan |-> FALSE, num |-> future - close, den |-> close]

\* a comparison of a price change with a threshold: false on an undefined one
Above(pc, hundredths) == ~pc.nan /\ pc.num * 100 > hundredths * pc.den
Below(pc, hundredths) == ~pc.nan /\ pc.num * 100 < hundredths * pc.den

\* a variant whose thresholds are inclusive
Label_inclusive(pc) ==
    IF ~pc.nan /\ pc.num * 100 >= buy_threshold * pc.den THEN 1
    ELSE IF ~pc.nan /\ pc.num * 100 <= sell_threshold * pc.den THEN 0 - 1
    ELSE 0

\* np.select(conditions, choices, default=0) at one row
Label(pc) ==
    IF Above(pc, buy_threshold) THEN 1
    ELSE IF Below(pc, sell_threshold) THEN 0 - 1
    ELSE 0

\* generate_labels(data): the three columns it adds
generate_labels(fr) ==
    LET n == Len(fr.close)
        future == [i \in 1..n |-> FuturePrice(fr.close, i)]
        change == [i \in 1..n |-> PriceChange(fr.close[i], future[i])]
    IN  [fr EXCEPT
           !.cols = @ \cup {"Future_Price", "Price_Change", "Signal"},
           !.nan = [i \in 1..n |->
                      fr.nan[i] \cup (IF change[i].nan
                                        THEN {"Future_Price", "Price_Change"}
                                        ELSE {})],
           !.Future_Price = future,
           !.Price_Change = change,
           !.Signal = [i \in 1..n |-> Label(change[i])]]

\* a variant that keeps every row
DropNa_none(fr, columns) == [i \in 1..Len(fr.close) |-> i]

\* data[available_columns].dropna(): the index of the rows none of whose
\* values in the columns is undefined
DropNa(fr, columns) ==
    SelectSeq([i \in 1..Len(fr.close) |-> i],
              LAMBDA i : \A k \in 1..Len(columns) : columns[k] \notin fr.nan[i])

----------------------------------------------------------------------------
(* The predictor object. *)

NoColumns == << >>

\* StandardScaler(): not fitted
NoScaler == [fitted |-> FALSE, sym |-> "", run |-> 0, cols |-> NoColumns]

\* self.model = None
NoModel ==
    [exists |-> FALSE, fitted |-> FALSE, sym |-> "", run |-> 0, cols |-> NoColumns]

\* StockPredictor.__init__
NewPredictor ==
    [model |-> NoModel, scaler |-> NoScaler, is_trained |-> FALSE,
     feature_columns |-> NoColumns]

Self == [model |-> model, scaler |-> scaler, is_trained |-> is_trained,
         feature_columns |-> feature_columns]

NoMsg == [prefix |-> "", detail |-> ""]
Msg(p, d) == [prefix |-> p, detail |-> d]

\* What the environment does to one train_model run: whether the download
\* returns bars, which indicator statement fails (0: none), how many usable
\* rows survive dropna, and which statement of the body raises ("none": none).
TrainExcPoints == {"none", "labels", "scale", "split", "fit", "score"}

TrainEnvs ==
    {[fetch |-> "none", failAt |-> 0, rows |-> 0, exc |-> "none"]}
    \cup [fetch : {"data"}, failAt : {0, 6}, rows : {MinRows}, exc : {"none"}]
    \cup [fetch : {"data"}, failAt : {0}, rows : {MinRows - 1}, exc : {"none"}]
    \cup [fetch : {"data"}, failAt : {0}, rows : {MinRows},
          exc : TrainExcPoints \ {"none"}]

\* no row count: train_model returned before it counted the rows
NoRows == 0 - 1

\* a variant that lets 49 rows pass
TooFewRows_below49(n) == n < 49

\* if len(X) < 50
TooFewRows(n) == n < MinRows

\* self.is_trained = True
MarkTrained(self) == [self EXCEPT !.is_trained = TRUE]

\* The body of train_model inside its try block.  Returns the predictor after
\* the body, the value returned (ok, msg, data_points) and whether an
\* exception left the body (exc, with its text in msg.detail).
train_body(self, symbol, run, env) ==
    LET cols == calculate_technical_indicators(BarColumns, env.failAt)
        fc   == prepare_features(cols)
        s1   == [self EXCEPT !.feature_columns = fc]
        \* StandardScaler.fit resets the scaler before it validates the input
        s2reset == [s1 EXCEPT !.scaler = NoScaler]
        s2   == [s1 EXCEPT !.scaler = [fitted |-> TRUE, sym |-> symbol, run |-> run,
                                       cols |-> fc]]
        \* self.model = RandomForestClassifier(...) is assigned before fit
        s3new == [s2 EXCEPT !.model = [exists |-> TRUE, fitted |-> FALSE,
                                       sym |-> symbol, run |-> run,
                                       cols |-> NoColumns]]
        s3   == [s2 EXCEPT !.model = [exists |-> TRUE, fitted |-> TRUE,
                                      sym |-> symbol, run |-> run, cols |-> fc]]
        s4   == MarkTrained(s3)
        \* len(X) as line 124 saw it (NoRows: the line was not reached)
        Ret(st, ok, m, n, len) ==
            [self |-> st, ok |-> ok, msg |-> m, data_points |-> n,
             usable_rows |-> len, exc |-> FALSE]
        Exc(st, d, len) ==
            [self |-> st, ok |-> FALSE, msg |-> Msg("", d),
             data_points |-> 0, usable_rows |-> len, exc |-> TRUE]
    IN  IF env.fetch = "none"
          THEN Ret(self, FALSE, Msg("Failed to download stock data", ""), 0, NoRows)
        ELSE IF env.exc = "labels" THEN Exc(self, "labels", NoRows)
        ELSE IF TooFewRows(env.rows)
          THEN Ret(s1, FALSE, Msg("Insufficient data for training", ""), 0, env.rows)
        ELSE IF env.exc = "scale" THEN Exc(s2reset, "scale", env.rows)
        ELSE IF env.exc = "split" THEN Exc(s2, "split", env.rows)
        ELSE IF env.exc = "fit"   THEN Exc(s3new, "fit", env.rows)
        ELSE IF env.exc = "score" THEN Exc(s3, "score", env.rows)
        ELSE Ret(s4, TRUE, NoMsg, env.rows, env.rows)

\* a variant without the except clause
train_model_uncaught(self, symbol, run, env) ==
    CHOOSE r \in
      { [self |-> b.self, ok |-> b.ok, msg |-> b.msg,
         data_points |-> b.data_points, usable_rows |-> b.usable_rows,
         raised |-> b.exc] :
        b \in {train_body(self, symbol, run, env)} } : TRUE

\* train_model(symbol): the body under "except Exception as e: return False,
\* f'Training error: {str(e)}'".  raised says whether an exception reaches the
\* caller.
train_model(self, symbol, run, env) ==
    CHOOSE r \in
      { IF b.exc
          THEN [self |-> b.self, ok |-> FALSE,
                msg |-> Msg("Training error: ", b.msg.detail),
                data_points |-> 0, usable_rows |-> b.usable_rows,
                raised |-> FALSE]
          ELSE [self |-> b.self, ok |-> b.ok, msg |-> b.msg,
                data_points |-> b.data_points, usable_rows |-> b.usable_rows,
                raised |-> FALSE] :
        b \in {train_body(self, symbol, run, env)} } : TRUE

----------------------------------------------------------------------------
(* Arithmetic. *)

Abs(x) == IF x < 0 THEN -x ELSE x

Max(a, b) == IF a >= b THEN a ELSE b

\* a * b / d for d > 0, truncated toward zero
MulDiv(a, b, d) ==
    IF a * b >= 0 THEN (a * b) \div d ELSE -((-(a * b)) \div d)

\* round(x, n) to the nearest multiple of unit, ties to even (x >= 0)
RoundHalfEven(x, unit) ==
    LET q == x \div unit
        r == x % unit
    IN  IF 2 * r > unit THEN q + 1
        ELSE IF 2 * r < unit THEN q
        ELSE IF q % 2 = 0 THEN q ELSE q + 1

\* base * c / 1000000 for base >= 0 and c >= 0 in millionths, without leaving
\* the 32-bit range
ScaleUp(base, c) ==
    LET q  == base \div 1000000
        r  == base % 1000000
        r1 == r \div 1000
        r0 == r % 1000
    IN  q * c + (r1 * c + (r0 * c) \div 1000) \div 1000

\* base * (1 + change), change in millionths
ApplyChange(base, change) ==
    IF change >= 0 THEN base + ScaleUp(base, change)
    ELSE base - ScaleUp(base, -change)

----------------------------------------------------------------------------
(* get_enhanced_signal. *)

\* a value that is undefined (NaN): every comparison with it is false
NaN == -999999

Lt(a, b) == a # NaN /\ b # NaN /\ a < b
Le(a, b) == a # NaN /\ b # NaN /\ a <= b

IndicatorNames ==
    {"RSI", "MACD", "MACD_Signal", "SMA_20", "SMA_50", "BB_Upper", "BB_Lower"}

\* latest_data[name].iloc[0] if name in latest_data else default
ValueOr(row, name, default) ==
    IF name \in row.cols THEN row.vals[name] ELSE default

\* if rsi < 30 ... elif rsi > 70 ... else
RsiScore(rsi) ==
    IF Lt(rsi, 30) THEN 1 ELSE IF Lt(70, rsi) THEN -1 ELSE 0

\* if macd > macd_signal and macd > 0 ... elif macd < macd_signal and macd < 0
MacdScore(macd, macd_signal) ==
    IF Lt(macd_signal, macd) /\ Lt(0, macd) THEN 1
    ELSE IF Lt(macd, macd_signal) /\ Lt(macd, 0) THEN -1
    ELSE 0

\* if current_price > sma_20 > sma_50 ... elif current_price < sma_20 < sma_50
TrendScore(price, sma_20, sma_50) ==
    IF Lt(sma_20, price) /\ Lt(sma_50, sma_20) THEN 1
    ELSE IF Lt(price, sma_20) /\ Lt(sma_20, sma_50) THEN -1
    ELSE 0

\* if current_price <= bb_lower ... elif current_price >= bb_upper
BandScore(price, bb_upper, bb_lower) ==
    IF Le(price, bb_lower) THEN 1
    ELSE IF Le(bb_upper, price) THEN -1
    ELSE 0

\* a variant that weights the classifier 60% and the indicators 40%
CombinedSignal_swapped(tech4, ml_signal) == 2 * tech4 + 12 * ml_signal

\* combined_signal = 0.6 * technical_signal + 0.4 * ml_signal, in twentieths:
\* technical_signal is tech4 / 4
CombinedSignal(tech4, ml_signal) == 3 * tech4 + 8 * ml_signal

\* a variant with the thresholds at 0.6 and -0.6
FinalSignal_at60(combined20) ==
    IF combined20 >= 12 THEN 1
    ELSE IF combined20 <= 0 - 12 THEN 0 - 1
    ELSE 0

\* combined_signal >= 0.5 -> 1, <= -0.5 -> -1, else 0
FinalSignal(combined20) ==
    IF combined20 >= 10 THEN 1
    ELSE IF combined20 <= -10 THEN -1
    ELSE 0

\* a variant that always grants the full agreement bonus
FusedConfidence_fullBonus(tech4, ml_signal, maxp) ==
    maxp * 500 + Abs(tech4) * 75000 + 200000

\* confidence = ml_confidence * 0.5 + technical_strength * 0.3 + agreement * 0.2
\* in millionths; maxp in thousandths
FusedConfidence(tech4, ml_signal, maxp) ==
    maxp * 500 + Abs(tech4) * 75000
      + (IF tech4 * ml_signal >= 0 THEN 200000 ELSE 100000)

NoDetails ==
    [empty |-> TRUE, rsi |-> 0, macd |-> 0, macd_signal |-> 0, sma_20 |-> 0,
     sma_50 |-> 0, bb_upper |-> 0, bb_lower |-> 0, ml_signal |-> 0,
     tech4 |-> 0, combined20 |-> 0]

\* a variant whose except clause answers Hold at one half
Fallback_neutral(prediction, maxp) ==
    [signal |-> 0, confidence |-> 500000,
     details |-> NoDetails, signal_scores |-> << >>]

\* except Exception: return prediction, np.max(prediction_proba), {}
Fallback(prediction, maxp) ==
    [signal |-> prediction, confidence |-> maxp * 1000,
     details |-> NoDetails, signal_scores |-> << >>]

\* get_enhanced_signal(latest_data, prediction, prediction_proba): the body in
\* its try block; a statement of the block raises when the environment makes
\* it (raises), and reading latest_data['Close'] raises when the column is
\* absent; the except clause returns the raw prediction, its maximal
\* probability and an empty breakdown.
get_enhanced_signal(row, prediction, maxp, raises) ==
    IF raises \/ "Close" \notin row.cols
      THEN Fallback(prediction, maxp)
    ELSE
    LET current_price == row.vals["Close"]
        rsi         == ValueOr(row, "RSI", 50)
        macd        == ValueOr(row, "MACD", 0)
        macd_signal == ValueOr(row, "MACD_Signal", 0)
        sma_20      == ValueOr(row, "SMA_20", current_price)
        sma_50      == ValueOr(row, "SMA_50", current_price)
        bb_upper    == ValueOr(row, "BB_Upper", current_price + current_price \div 50)
        bb_lower    == ValueOr(row, "BB_Lower", current_price - current_price \div 50)
        \* signal_scores, in the order of the four rules
        signal_scores == << RsiScore(rsi), MacdScore(macd, macd_signal),
                            TrendScore(current_price, sma_20, sma_50),
                            BandScore(current_price, bb_upper, bb_lower) >>
        tech4 == signal_scores[1] + signal_scores[2] + signal_scores[3]
                   + signal_scores[4]
        combined20 == CombinedSignal(tech4, prediction)
    IN  [signal |-> FinalSignal(combined20),
         confidence |-> FusedConfidence(tech4, prediction, maxp),
         signal_scores |-> signal_scores,
         details |-> [empty |-> FALSE, rsi |-> rsi, macd |-> macd,
                      macd_signal |-> macd_signal, sma_20 |-> sma_20,
                      sma_50 |-> sma_50, bb_upper |-> bb_upper,
                      bb_lower |-> bb_lower, ml_signal |-> prediction,
                      tech4 |-> tech4, combined20 |-> combined20]]

----------------------------------------------------------------------------
(* The trajectory loop of predict. *)

\* hash(...) % (2**32): the seeds are 0 .. SeedModulus - 1
SeedModulus == 4

SymCode(symbol) == IF symbol = "AAPL" THEN 1 ELSE 2

\* hash(f"{symbol}_{date}_{day}"): a function of the process's hash key and
\* of the string, which the symbol, the date and the day index determine.
\* The mixing stands for the interpreter's keyed string hash.
PyHash(key, symbol, date, day) ==
    (2 * key + 1) * ((SymCode(symbol) * 31 + date) * 31 + day) + key

\* random_seed = hash(f"{symbol}_{date}_{day}") % (2**32)
RandomSeed(key, symbol, date, day) == PyHash(key, symbol, date, day) % SeedModulus

\* np.random.seed(s); np.random.normal(0, 1): the first standard normal
\* deviate of the generator seeded with s, in thousandths
Randn(s) ==
    CASE s = 0 -> 1764
      [] s = 1 -> 1624
      [] s = 2 -> -417
      [] s = 3 -> 1789
      [] s = 4 -> 51
      [] OTHER -> 441

\* base_trend by signal, in thousandths
BaseTrend(signal) ==
    IF signal = 1 THEN 8 ELSE IF signal = -1 THEN -8 ELSE 1

\* volatility by signal, in millionths
Volatility(signal) ==
    IF signal = 1 \/ signal = -1 THEN 15000 ELSE 12000

DayFactorTable ==
    << 729950, 759601, 788656, 816826, 843828, 869393, 893265, 915207, 934998,
       952441, 967362, 979612, 989067, 995635, 999248, 999872, 997499, 992154,
       983890, 972789, 958963, 942549, 923712, 902639, 879542, 854650, 828214,
       800496, 771775, 742336, 712474 >>

\* day_factor = np.sin(day * 0.1) * 0.3 + 0.7, in millionths
DayFactor(day) == DayFactorTable[day]

\* a variant without the floor
DayConfidence_unfloored(conf, day) == (conf * (100 - (day - 1) * 3)) \div 100

\* confidence = max(0.45, enhanced_confidence * (1 - (day - 1) * 0.03)), in
\* millionths
DayConfidence(conf, day) == Max(450000, (conf * (100 - (day - 1) * 3)) \div 100)

\* round(base_price, 2), in cents
RoundPrice(price) == RoundHalfEven(price, 10000)

\* round(confidence, 3), in thousandths
RoundConfidence(conf) == RoundHalfEven(conf, 1000)

\* a variant that stops one day early
LoopDone_early(day, days) == day >= days

\* for day in range(1, days + 1): whether the loop is over before day
LoopDone(day, days) == day > days

\* One iteration of "for day in range(1, days + 1)", run on calendar date
\* date: the new base_price and the point appended to predictions.
DayStep(key, symbol, date, day, base_price, signal, conf) ==
    LET trend_component == MulDiv(BaseTrend(signal), DayFactor(day), 1000)
        random_seed == RandomSeed(key, symbol, date, day)
        volatility_component == MulDiv(Volatility(signal), Randn(random_seed), 1000)
        total_change == trend_component + volatility_component
        price == ApplyChange(base_price, total_change)
    IN  [base_price |-> price,
         point |-> [day |-> day,
                    predicted_price |-> RoundPrice(price),
                    confidence |-> RoundConfidence(DayConfidence(conf, day))]]

\* The whole loop run on one calendar date: predictions after the days from
\* day on, given the base_price and the predictions so far.
RECURSIVE Trajectory(_, _, _, _, _, _, _, _, _)
Trajectory(key, symbol, date, days, day, base_price, signal, conf, out) ==
    IF LoopDone(day, days) THEN out
    ELSE CHOOSE r \in
           { Trajectory(key, symbol, date, days, day + 1, st.base_price,
                        signal, conf, Append(out, st.point)) :
             st \in {DayStep(key, symbol, date, day, base_price, signal, conf)} } :
           TRUE

----------------------------------------------------------------------------
(* predict. *)

RowNames == {"Close"} \cup IndicatorNames

\* the latest bar with its indicator values
RowVals(close, rsi, macd, macd_signal, sma_20, sma_50, bb_upper, bb_lower) ==
    [n \in RowNames |->
        CASE n = "Close" -> close
          [] n = "RSI" -> rsi
          [] n = "MACD" -> macd
          [] n = "MACD_Signal" -> macd_signal
          [] n = "SMA_20" -> sma_20
          [] n = "SMA_50" -> sma_50
          [] n = "BB_Upper" -> bb_upper
          [] OTHER -> bb_lower]

\* rows of the latest bar: every rule bullish at 1.00, every rule bearish at
\* 1.00, one bullish rule at 100.00, and a bar whose RSI is undefined
BullishRow == RowVals(1000000, 25, 1000, 500, 990000, 980000, 1100000, 1000000)
BearishRow == RowVals(1000000, 75, -1000, -500, 1010000, 1020000, 1000000, 900000)
MixedRow ==
    RowVals(100000000, 50, 1000, 500, 100000000, 100000000, 110000000, 90000000)
UndefinedRow == RowVals(1000000, NaN, 0, 0, 1000000, 1000000, 1100000, 900000)

\* the classifier's outputs: the class, and the maximal class probability in
\* thousandths
Classes == {-1, 0, 1}
MaxProbas == {334, 500, 900, 1000}

\* What the environment does to the part of predict after the training: whether
\* the recent download returns bars, which indicator statement fails, the
\* latest row, the classifier's output, and which later part raises ("none":
\* none).
InferEnvs ==
    { [fetch |-> "none", failAt |-> 0, vals |-> BullishRow, prediction |-> 0,
       maxp |-> 500, exc |-> "none"],
      [fetch |-> "data", failAt |-> 0, vals |-> BullishRow, prediction |-> 1,
       maxp |-> 900, exc |-> "none"],
      [fetch |-> "data", failAt |-> 0, vals |-> BearishRow, prediction |-> -1,
       maxp |-> 500, exc |-> "none"],
      [fetch |-> "data", failAt |-> 0, vals |-> MixedRow, prediction |-> 0,
       maxp |-> 334, exc |-> "none"],
      [fetch |-> "data", failAt |-> 6, vals |-> BullishRow, prediction |-> 1,
       maxp |-> 1000, exc |-> "none"],
      [fetch |-> "data", failAt |-> 0, vals |-> UndefinedRow, prediction |-> 0,
       maxp |-> 500, exc |-> "none"],
      [fetch |-> "data", failAt |-> 0, vals |-> BullishRow, prediction |-> 1,
       maxp |-> 900, exc |-> "infer"],
      [fetch |-> "data", failAt |-> 0, vals |-> BullishRow, prediction |-> 1,
       maxp |-> 900, exc |-> "simulate"],
      [fetch |-> "data", failAt |-> 0, vals |-> BullishRow, prediction |-> -1,
       maxp |-> 334, exc |-> "fusion"],
      [fetch |-> "data", failAt |-> 0, vals |-> BearishRow, prediction |-> 0,
       maxp |-> 900, exc |-> "fusion"] }

NoTrainEnv == [fetch |-> "none", failAt |-> 0, rows |-> 0, exc |-> "none"]
NoInferEnv == [fetch |-> "none", failAt |-> 0, vals |-> BullishRow,
               prediction |-> 0, maxp |-> 500, exc |-> "none"]

WithTrain(te, ie) ==
    [train |-> te, fetch |-> ie.fetch, failAt |-> ie.failAt, vals |-> ie.vals,
     prediction |-> ie.prediction, maxp |-> ie.maxp, exc |-> ie.exc]

\* The environments one predict call on this predictor can meet: train_model
\* runs only when is_trained is false, and the later part only when the
\* training did not fail.
PredictEnvs(self) ==
    IF self.is_trained
      THEN {WithTrain(NoTrainEnv, ie) : ie \in InferEnvs}
      ELSE {WithTrain(te, NoInferEnv) :
               te \in {e \in TrainEnvs : e.fetch = "none" \/ e.rows < MinRows
                                          \/ e.exc # "none"}}
           \cup {WithTrain(te, ie) :
                   te \in {e \in TrainEnvs : e.fetch = "data" /\ e.rows >= MinRows
                                              /\ e.exc = "none"},
                   ie \in InferEnvs}

NoResult ==
    [none |-> TRUE, symbol |-> "", current_price |-> 0, signal |-> 0,
     signal_confidence |-> 0, predictions |-> << >>]

\* what a predict call did, beside what it returned
NoTrace ==
    [train_calls |-> 0, train_ok |-> FALSE, train_msg |-> NoMsg,
     train_raised |-> FALSE, fetched_recent |-> FALSE, inferred |-> FALSE,
     used_scaler |-> NoScaler, used_model |-> NoModel, simulated |-> FALSE,
     train_points |-> 0, train_rows |-> NoRows,
     passed_to_scaler |-> FALSE, passed_columns |-> NoColumns,
     fusion_raised |-> FALSE, prediction |-> 0, prediction_proba |-> 0,
     signal_details_empty |-> FALSE]

\* what predict handed to the handler: an exception, or the pair
NoReturn == [raised |-> FALSE, result |-> NoResult, error |-> NoMsg]

\* a variant that trains on every call
NeedsTraining_always(self) == TRUE

\* if not self.is_trained
NeedsTraining(self) == ~self.is_trained

\* a variant that goes on after a failed training
TrainingFailed_ignored(t) == FALSE

\* if not success: return None, result
TrainingFailed(t) == ~t.ok

\* The body of predict inside its try block, given the outcome t of the
\* training it starts when it needs one.  Returns the predictor after the
\* body, the pair returned (result, error), what the body did (trace) and
\* whether an exception left the body (exc).
predict_after_training(self, t, symbol, days, env, key, date) ==
    LET needs_training == NeedsTraining(self)
        s1 == IF needs_training THEN t.self ELSE self
        tr1 == IF needs_training
                 THEN [NoTrace EXCEPT !.train_calls = 1, !.train_ok = t.ok,
                                      !.train_msg = t.msg,
                                      !.train_raised = t.raised,
                                      !.train_points = t.data_points,
                                      !.train_rows = t.usable_rows]
                 ELSE NoTrace
        cols == calculate_technical_indicators(BarColumns, env.failAt)
        row  == [cols |-> cols, vals |-> env.vals]
        X_columns == prepare_features(cols)
        \* X = data[available_columns].dropna(): empty when a retained column
        \* of the latest row is undefined
        X_empty == \E n \in RowNames : n \in cols /\ env.vals[n] = NaN
        tr2 == [tr1 EXCEPT !.fetched_recent = TRUE]
        \* X_scaled = self.scaler.transform(X): X and its columns reach the scaler
        tr2x == [tr2 EXCEPT !.passed_to_scaler = TRUE, !.passed_columns = X_columns]
        \* scaler.transform raises on a scaler that is not fitted or was
        \* fitted with other columns; model.predict likewise (self.model may
        \* be None)
        transform_raises == ~s1.scaler.fitted \/ s1.scaler.cols # X_columns
        predict_raises   == ~s1.model.fitted \/ s1.model.cols # X_columns
        tr3 == [tr2x EXCEPT !.inferred = TRUE, !.used_scaler = s1.scaler,
                           !.used_model = s1.model]
        current_price == env.vals["Close"]
        \* the call of get_enhanced_signal with the classifier's outputs
        tr4 == [tr3 EXCEPT !.simulated = TRUE,
                           !.fusion_raised = (env.exc = "fusion"),
                           !.prediction = env.prediction,
                           !.prediction_proba = env.maxp]
        Ret(st, res, err, tr) ==
            [self |-> st, result |-> res, error |-> err, trace |-> tr, exc |-> FALSE]
        Exc(st, d, tr) ==
            [self |-> st, result |-> NoResult, error |-> Msg("", d), trace |-> tr,
             exc |-> TRUE]
    IN  IF needs_training /\ t.raised THEN Exc(s1, "train", tr1)
        ELSE IF needs_training /\ TrainingFailed(t)
          THEN Ret(s1, NoResult, t.msg, tr1)
        ELSE IF env.fetch = "none"
          THEN Ret(s1, NoResult, Msg("Failed to download recent stock data", ""), tr2)
        ELSE IF X_empty
          THEN Ret(s1, NoResult,
                   Msg("Failed to prepare features for prediction", ""), tr2)
        ELSE IF transform_raises THEN Exc(s1, "transform", tr2x)
        ELSE IF predict_raises \/ env.exc = "infer" THEN Exc(s1, "predict", tr2x)
        ELSE IF env.exc = "simulate" THEN Exc(s1, "simulate", tr3)
        ELSE CHOOSE r \in
               { Ret(s1,
                     [none |-> FALSE, symbol |-> symbol,
                      current_price |-> RoundPrice(current_price),
                      signal |-> e.signal,
                      signal_confidence |-> RoundConfidence(e.confidence),
                      predictions |->
                        Trajectory(key, symbol, date, days, 1, current_price,
                                   e.signal, e.confidence, << >>)],
                     NoMsg, [tr4 EXCEPT !.signal_details_empty = e.details.empty]) :
                 e \in {get_enhanced_signal(row, env.prediction, env.maxp,
                                            env.exc = "fusion")} } : TRUE

\* The body of predict inside its try block: the training when it is needed
\* (t is bound once, through a singleton set), then the rest.
predict_body(self, symbol, days, run, env, key, date) ==
    CHOOSE r \in
      { predict_after_training(self, t, symbol, days, env, key, date) :
        t \in {train_model(self, symbol, run, env.train)} } : TRUE

\* predict(symbol, days): the body under "except Exception as e: return None,
\* f'Prediction error: {str(e)}'"
predict(self, symbol, days, run, env, key, date) ==
    CHOOSE r \in
      { IF b.exc
          THEN [self |-> b.self, result |-> NoResult,
                error |-> Msg("Prediction error: ", b.error.detail),
                trace |-> b.trace, raised |-> FALSE]
          ELSE [self |-> b.self, result |-> b.result, error |-> b.error,
                trace |-> b.trace, raised |-> FALSE] :
        b \in {predict_body(self, symbol, days, run, env, key, date)} } : TRUE

----------------------------------------------------------------------------
(* predict_stock, the handler of POST /api/predict. *)

\* the symbols requests carry, and symbol.upper()
RequestSymbols == Symbols \cup {"aapl"}
Upper(symbol) == IF symbol = "aapl" THEN "AAPL" ELSE symbol

\* The "days" values requests carry: JSON numbers, in halves (61 is 30.5),
\* and text that is no number.
DaysNumbers ==
    { -2, 2 * MinDays - 2, 2 * MinDays - 1, 2 * MinDays,
      2 * MaxDays, 2 * MaxDays + 1, 2 * MaxDays + 2 }

Number(h) == [text |-> FALSE, halves |-> h]
Text == [text |-> TRUE, halves |-> 0]

\* a request: whether it has a JSON body, its symbol and its days value
Requests ==
    [body : {TRUE}, symbol : {"AAPL"}, days : {Number(h) : h \in DaysNumbers} \cup {Text}]
    \cup [body : {TRUE}, symbol : {"MSFT"},
          days : {Number(2 * MinDays), Number(2 * MaxDays + 2)}]
    \cup {[body |-> TRUE, symbol |-> "aapl", days |-> Number(2 * MinDays + 2)],
          [body |-> FALSE, symbol |-> "AAPL", days |-> Number(2 * MinDays)]}

\* int(x) of a number given in halves: truncation toward zero
IntOf(halves) == IF halves >= 0 THEN halves \div 2 ELSE -((-halves) \div 2)

\* if days < 1 or days > 30
DaysRejected(days) == days < MinDays \/ days > MaxDays

\* predict_stock(): the response, the predictor after the call and what the
\* call did.  The body runs under "except Exception as e: return
\* jsonify({'error': f'Server error: {str(e)}'}), 500".
predict_stock(self, req, run, env, key, date) ==
    LET symbol == Upper(req.symbol)
        days   == IntOf(req.days.halves)
        Resp(st, status, res, err, tr, called, ret) ==
            [self |-> st, status |-> status, result |-> res, error |-> err,
             trace |-> tr, called_predict |-> called, symbol |-> symbol,
             days |-> IF called THEN days ELSE 0, predict_return |-> ret,
             raised |-> FALSE]
        Returned(p) == [raised |-> p.raised, result |-> p.result, error |-> p.error]
    IN  IF ~req.body
          THEN Resp(self, 500, NoResult, Msg("Server error: ", "body"), NoTrace,
                    FALSE, NoReturn)
        ELSE IF req.days.text
          THEN Resp(self, 500, NoResult, Msg("Server error: ", "int"), NoTrace,
                    FALSE, NoReturn)
        ELSE IF DaysRejected(days)
          THEN Resp(self, 400, NoResult, Msg("Days must be between 1 and 30", ""),
                    NoTrace, FALSE, NoReturn)
        ELSE CHOOSE r \in
               { IF p.raised
                   THEN Resp(p.self, 500, NoResult, Msg("Server error: ", "predict"),
                             p.trace, TRUE, Returned(p))
                 ELSE IF p.error # NoMsg
                   THEN Resp(p.self, 500, NoResult, p.error, p.trace, TRUE,
                             Returned(p))
                 ELSE Resp(p.self, 200, p.result, NoMsg, p.trace, TRUE,
                           Returned(p)) :
                 p \in {predict(self, symbol, days, run, env, key, date)} } : TRUE

----------------------------------------------------------------------------
(* PortfolioManager (src/portfolio_manager.py): the holdings, transactions  *)
(* and portfolios tables of its SQLite database.  Share counts are whole    *)
(* numbers, prices are in cents, and a timestamp is the number of the call  *)
(* that wrote it.                                                           *)

\* the portfolios create_portfolio has made
PortfolioIds == {1, 2}

\* the database after init_database and create_portfolio: no holdings, no
\* transactions (calls counts the add_to_portfolio calls so far, ret is what
\* the last one returned)
NewDb ==
    [portfolios |-> [p \in PortfolioIds |-> [updated_date |-> 0]],
     holdings |-> << >>, holding_seq |-> 0, transactions |-> << >>,
     calls |-> 0, ret |-> [ok |-> FALSE, msg |-> ""]]

\* transaction_type.upper()
UpperType(transaction_type) ==
    IF transaction_type = "sell" THEN "SELL"
    ELSE IF transaction_type = "buy" THEN "BUY"
    ELSE transaction_type

\* SELECT ... FROM holdings WHERE portfolio_id = ? AND symbol = ?
SelectHoldings(holdings, portfolio_id, symbol) ==
    SelectSeq(holdings,
              LAMBDA r : r.portfolio_id = portfolio_id /\ r.symbol = symbol)

\* cursor.fetchone(): the first row selected, or None
NoHolding ==
    [none |-> TRUE, id |-> 0, portfolio_id |-> 0, symbol |-> "", shares |-> 0,
     avg_price |-> 0, purchase_date |-> 0]
fetchone(rows) == IF rows = << >> THEN NoHolding ELSE rows[1]

\* UPDATE holdings SET shares = ?, avg_price = ? WHERE portfolio_id = ? AND
\* symbol = ?: every matching row is written
UpdateHoldings(holdings, portfolio_id, symbol, new_shares, new_avg_price) ==
    [i \in 1..Len(holdings) |->
        IF holdings[i].portfolio_id = portfolio_id /\ holdings[i].symbol = symbol
          THEN [holdings[i] EXCEPT !.shares = new_shares,
                                   !.avg_price = new_avg_price]
          ELSE holdings[i]]

\* DELETE FROM holdings WHERE portfolio_id = ? AND symbol = ?
DeleteHoldings(holdings, portfolio_id, symbol) ==
    SelectSeq(holdings,
              LAMBDA r : ~(r.portfolio_id = portfolio_id /\ r.symbol = symbol))

\* a variant that sells whatever the holding has
Sufficient_any(existing, shares) == ~existing.none

\* if existing and existing[0] >= shares
Sufficient(existing, shares) == ~existing.none /\ existing.shares >= shares

\* add_to_portfolio(portfolio_id, symbol, shares, price, transaction_type),
\* called at time now; raises tells whether a statement of the try block
\* raises (the database is locked, say).  The statements write inside one
\* transaction of the connection: conn.commit() publishes them, and a return
\* that reaches conn.close() without it leaves the database as it was.
add_to_portfolio(d, portfolio_id, symbol, shares, price, transaction_type, now, raises) ==
    LET transactions ==
            Append(d.transactions,
                   [portfolio_id |-> portfolio_id, symbol |-> symbol,
                    transaction_type |-> transaction_type, shares |-> shares,
                    price |-> price, transaction_date |-> now])
        existing == fetchone(SelectHoldings(d.holdings, portfolio_id, symbol))
        bought ==
            IF ~existing.none
              THEN LET new_shares == existing.shares + shares
                       new_avg_price ==
                           (existing.shares * existing.avg_price + shares * price)
                               \div new_shares
                   IN  [holdings |-> UpdateHoldings(d.holdings, portfolio_id,
                                                    symbol, new_shares,
                                                    new_avg_price),
                        holding_seq |-> d.holding_seq]
              ELSE [holdings |->
                        Append(d.holdings,
                               [none |-> FALSE, id |-> d.holding_seq + 1,
                                portfolio_id |-> portfolio_id, symbol |-> symbol,
                                shares |-> shares, avg_price |-> price,
                                purchase_date |-> now]),
                    holding_seq |-> d.holding_seq + 1]
        sold ==
            LET new_shares == existing.shares - shares
            IN  IF new_shares > 0
                  THEN [holdings |-> UpdateHoldings(d.holdings, portfolio_id,
                                                    symbol, new_shares,
                                                    existing.avg_price),
                        holding_seq |-> d.holding_seq]
                  ELSE [holdings |-> DeleteHoldings(d.holdings, portfolio_id,
                                                    symbol),
                        holding_seq |-> d.holding_seq]
        kept == [holdings |-> d.holdings, holding_seq |-> d.holding_seq]
        Commit(h) ==
            [d EXCEPT !.transactions = transactions,
                      !.holdings = h.holdings,
                      !.holding_seq = h.holding_seq,
                      !.portfolios =
                          [p \in DOMAIN d.portfolios |->
                              IF p = portfolio_id
                                THEN [updated_date |-> now]
                                ELSE d.portfolios[p]],
                      !.ret = [ok |-> TRUE,
                               msg |-> "Transaction completed successfully"]]
    IN  IF raises
          THEN [d EXCEPT !.ret = [ok |-> FALSE, msg |-> "str(e)"]]
        ELSE IF UpperType(transaction_type) = "BUY" THEN Commit(bought)
        ELSE IF UpperType(transaction_type) = "SELL"
          THEN IF Sufficient(existing, shares)
                 THEN Commit(sold)
                 ELSE [d EXCEPT !.ret = [ok |-> FALSE,
                                         msg |-> "Insufficient shares to sell"]]
        ELSE Commit(kept)

----------------------------------------------------------------------------
(* The lifecycle specifications: calls on the shared predictor, one at a    *)
(* time, within one calendar date and under one hash key (the stepwise and  *)
(* the forecast specifications vary those).                                 *)

NoRequest == [body |-> FALSE, symbol |-> "", days |-> [text |-> FALSE, halves |-> 0]]

NoLast ==
    [op |-> "none", request |-> NoRequest, symbol |-> "", days |-> 0,
     status |-> 0, result |-> NoResult, error |-> NoMsg, trace |-> NoTrace,
     called_predict |-> FALSE, predict_return |-> NoReturn, raised |-> FALSE,
     ok |-> FALSE, before |-> NewPredictor]

NoSim ==
    [active |-> FALSE, signal |-> 0, confidence |-> 0, price |-> 0,
     symbol |-> "", days |-> 0, day |-> 0, base_price |-> 0, start |-> 0,
     raw |-> << >>, predictions |-> << >>]

\* no frame yet
NoFrame ==
    [stage |-> "none", close |-> << >>, cols |-> {}, nan |-> << >>,
     warm |-> 0, failAt |-> 0,
     Future_Price |-> << >>, Price_Change |-> << >>, Signal |-> << >>,
     X_index |-> << >>, X_columns |-> << >>, y |-> << >>]

\* no request in progress
NoThreads == << >>

NoForecast ==
    [done |-> FALSE, symbol |-> "", days |-> 0, vals |-> BullishRow,
     failAt |-> 0, raises |-> FALSE, prediction |-> 0, maxp |-> 0, signal |-> 0,
     confidence |-> 0,
     signal_confidence |-> 0, details |-> NoDetails, signal_scores |-> << >>,
     predictions |-> << >>]

Init ==
    /\ model = NoModel
    /\ scaler = NoScaler
    /\ is_trained = FALSE
    /\ feature_columns = NoColumns
    /\ trainRuns = 0
    /\ hashKey = 0
    /\ clock = 0
    /\ last = NoLast
    /\ sim = NoSim
    /\ runs = {}
    /\ forecast = NoForecast
    /\ frame = NoFrame
    /\ threads = NoThreads
    /\ db = NewDb

SetSelf(st) ==
    /\ model' = st.model
    /\ scaler' = st.scaler
    /\ is_trained' = st.is_trained
    /\ feature_columns' = st.feature_columns

\* the environments a request can meet: a request the handler answers before
\* it calls predict meets none
RequestEnvs(self, req) ==
    IF ~req.body \/ req.days.text \/ DaysRejected(IntOf(req.days.halves))
      THEN {WithTrain(NoTrainEnv, NoInferEnv)}
      ELSE PredictEnvs(self)

\* a request reaches predict_stock
PredictStock ==
    /\ is_trained \/ trainRuns < MaxTrainRuns
    /\ \E req \in Requests :
       \E env \in RequestEnvs(Self, req) :
       \E r \in {predict_stock(Self, req, trainRuns + 1, env, hashKey, clock)} :
             /\ SetSelf(r.self)
             /\ trainRuns' = trainRuns + r.trace.train_calls
             /\ last' = [op |-> "predict_stock", request |-> req,
                         symbol |-> r.symbol, days |-> r.days,
                         status |-> r.status, result |-> r.result,
                         error |-> r.error, trace |-> r.trace,
                         called_predict |-> r.called_predict,
                         predict_return |-> r.predict_return,
                         raised |-> r.raised, ok |-> r.status = 200,
                         before |-> Self]
    /\ UNCHANGED << hashKey, clock, sim, runs, forecast, frame, threads, db >>

\* a caller invokes predictor.train_model(symbol)
TrainModelCall ==
    /\ trainRuns < MaxTrainRuns
    /\ \E symbol \in Symbols, env \in TrainEnvs :
       \E t \in {train_model(Self, symbol, trainRuns + 1, env)} :
             /\ SetSelf(t.self)
             /\ trainRuns' = trainRuns + 1
             /\ last' = [op |-> "train_model", request |-> NoRequest,
                         symbol |-> symbol, days |-> 0, status |-> 0,
                         result |-> NoResult, error |-> t.msg,
                         trace |-> [NoTrace EXCEPT !.train_calls = 1,
                                                   !.train_ok = t.ok,
                                                   !.train_msg = t.msg,
                                                   !.train_raised = t.raised,
                                                   !.train_points = t.data_points,
                                                   !.train_rows = t.usable_rows],
                         called_predict |-> FALSE, predict_return |-> NoReturn,
                         raised |-> t.raised,
                         ok |-> t.ok, before |-> Self]
    /\ UNCHANGED << hashKey, clock, sim, runs, forecast, frame, threads, db >>

\* the service: requests are the only callers of the predictor
Next == PredictStock

Spec == Init /\ [][Next]_vars

\* the predictor as a class: callers also invoke train_model directly
CallsNext == PredictStock \/ TrainModelCall

SpecCalls == Init /\ [][CallsNext]_vars

----------------------------------------------------------------------------
(* The stepwise specification of the trajectory loop: the clock may pass    *)
(* midnight between two iterations, each of which reads it.                 *)

Predictor == << model, scaler, is_trained, feature_columns, trainRuns, last >>

\* the fused signal, confidence and starting price the loop starts from
Fused(vals, prediction, maxp) ==
    LET e == get_enhanced_signal([cols |-> RowNames, vals |-> vals], prediction,
                                 maxp, FALSE)
    IN  [signal |-> e.signal, confidence |-> e.confidence, price |-> vals["Close"]]

SimInputs ==
    { Fused(BullishRow, 1, 900), Fused(BearishRow, -1, 500),
      Fused(MixedRow, 0, 334), Fused(UndefinedRow, 0, 500) }

SimInit ==
    /\ model = NoModel
    /\ scaler = NoScaler
    /\ is_trained = FALSE
    /\ feature_columns = NoColumns
    /\ trainRuns = 0
    /\ hashKey \in 0..MaxHashKey
    /\ clock = 0
    /\ last = NoLast
    /\ \E f \in SimInputs :
         sim = [NoSim EXCEPT !.signal = f.signal, !.confidence = f.confidence,
                             !.price = f.price]
    /\ runs = {}
    /\ forecast = NoForecast
    /\ frame = NoFrame
    /\ threads = NoThreads
    /\ db = NewDb

\* predictions = []; base_price = current_price (two runs are compared)
SimStart ==
    /\ ~sim.active
    /\ Cardinality(runs) < 2
    /\ \E symbol \in Symbols, days \in 1..MaxSimDays :
         sim' = [sim EXCEPT !.active = TRUE, !.symbol = symbol, !.days = days,
                            !.day = 1, !.base_price = sim.price,
                            !.start = clock, !.raw = << >>,
                            !.predictions = << >>]
    /\ UNCHANGED << Predictor, hashKey, clock, runs, forecast, frame, threads, db >>

\* a variant whose iteration counts the days down from the horizon
SimDay_countdown ==
    /\ sim.active
    /\ ~LoopDone(sim.day, sim.days)
    /\ \E st \in {DayStep(hashKey, sim.symbol, clock, sim.days - sim.day + 1,
                          sim.base_price, sim.signal, sim.confidence)} :
         sim' = [sim EXCEPT !.day = sim.day + 1, !.base_price = st.base_price,
                            !.raw = Append(sim.raw, st.base_price),
                            !.predictions = Append(sim.predictions, st.point)]
    /\ UNCHANGED << Predictor, hashKey, clock, runs, forecast, frame, threads, db >>

\* one iteration of the loop, on the date the clock shows now
SimDay ==
    /\ sim.active
    /\ ~LoopDone(sim.day, sim.days)
    /\ \E st \in {DayStep(hashKey, sim.symbol, clock, sim.day, sim.base_price,
                          sim.signal, sim.confidence)} :
         sim' = [sim EXCEPT !.day = sim.day + 1, !.base_price = st.base_price,
                            !.raw = Append(sim.raw, st.base_price),
                            !.predictions = Append(sim.predictions, st.point)]
    /\ UNCHANGED << Predictor, hashKey, clock, runs, forecast, frame, threads, db >>

\* the loop ends
SimFinish ==
    /\ sim.active
    /\ LoopDone(sim.day, sim.days)
    /\ runs' = runs \cup {[symbol |-> sim.symbol, date |-> sim.start,
                           finished |-> clock, days |-> sim.days,
                           raw |-> sim.raw, predictions |-> sim.predictions]}
    /\ sim' = [sim EXCEPT !.active = FALSE, !.symbol = "", !.days = 0,
                          !.day = 0, !.base_price = 0, !.start = 0,
                          !.raw = << >>, !.predictions = << >>]
    /\ UNCHANGED << Predictor, hashKey, clock, forecast, frame, threads, db >>

\* midnight passes
ClockTick ==
    /\ clock < MaxDate
    /\ clock' = clock + 1
    /\ UNCHANGED << model, scaler, is_trained, feature_columns, trainRuns,
                    hashKey, last, sim, runs, forecast, frame, threads, db >>

SimNext == SimStart \/ SimDay \/ SimFinish \/ ClockTick

SpecSim == SimInit /\ [][SimNext]_vars

----------------------------------------------------------------------------
(* The forecast specification: one fusion and one trajectory, run on one    *)
(* date, for every latest row of a grid, classifier output and horizon.     *)

\* latest rows at 1.00: each rule bullish, neutral or bearish
FusionRows ==
    { RowVals(1000000, rsi, m[1], m[2], t[1], t[2], b[1], b[2]) :
        rsi \in {25, 50, 75},
        m \in {<< 1000, 500 >>, << 0, 0 >>, << -1000, -500 >>},
        t \in {<< 990000, 980000 >>, << 1000000, 1000000 >>, << 1010000, 1020000 >>},
        b \in {<< 1100000, 1000000 >>, << 1100000, 900000 >>, << 1000000, 900000 >>} }

\* the horizons of the forecast specification
ForecastDays == {MinDays, MinDays + 1, MaxDays}

ForecastInit ==
    /\ model = NoModel
    /\ scaler = NoScaler
    /\ is_trained = FALSE
    /\ feature_columns = NoColumns
    /\ trainRuns = 0
    /\ hashKey \in 0..MaxHashKey
    /\ clock = 0
    /\ last = NoLast
    /\ sim = NoSim
    /\ runs = {}
    /\ frame = NoFrame
    /\ threads = NoThreads
    /\ db = NewDb
    /\ \E vals \in FusionRows \cup {MixedRow, UndefinedRow}, prediction \in Classes,
          maxp \in MaxProbas, days \in ForecastDays, failAt \in {0, 1, 6},
          raises \in BOOLEAN :
         forecast = [NoForecast EXCEPT !.symbol = "AAPL", !.days = days,
                                       !.raises = raises,
                                       !.vals = vals, !.failAt = failAt,
                                       !.prediction = prediction, !.maxp = maxp]

\* get_enhanced_signal and the trajectory loop on the drawn inputs
Forecast ==
    /\ ~forecast.done
    /\ \E e \in {get_enhanced_signal(
                   [cols |-> calculate_technical_indicators(BarColumns, forecast.failAt),
                    vals |-> forecast.vals],
                   forecast.prediction, forecast.maxp, forecast.raises)} :
         forecast' =
           [forecast EXCEPT
              !.done = TRUE, !.signal = e.signal, !.confidence = e.confidence,
              !.signal_confidence = RoundConfidence(e.confidence),
              !.details = e.details,
              !.signal_scores = e.signal_scores,
              !.predictions =
                 Trajectory(hashKey, forecast.symbol, clock, forecast.days, 1,
                            forecast.vals["Close"], e.signal, e.confidence, << >>)]
    /\ UNCHANGED << Predictor, hashKey, clock, sim, runs, frame, threads, db >>

ForecastNext == Forecast

SpecForecast == ForecastInit /\ [][ForecastNext]_vars

----------------------------------------------------------------------------
(* Properties. *)

\* the predictor holds a model trained on this symbol's history
TrainedFor(self, symbol) ==
    self.is_trained /\ self.model.sym = symbol /\ self.scaler.sym = symbol

\* C1: whenever predict(S, days) runs classifier inference, the scaler and the
\* classifier it uses were fitted by a train_model run on S's own history.
C1_InferenceUsesOwnSymbol ==
    (last.called_predict /\ last.trace.inferred) =>
        /\ last.trace.used_scaler.sym = last.symbol
        /\ last.trace.used_model.sym = last.symbol

\* C2: a predict call invokes train_model exactly once when no trained model
\* exists for its symbol at the start of the call, and not at all when one
\* exists.
C2_TrainsOncePerSymbol ==
    last.called_predict =>
        last.trace.train_calls =
            (IF TrainedFor(last.before, last.symbol) THEN 0 ELSE 1)

\* C3: when the training predict starts fails, predict returns None with the
\* training's message unchanged, fetches no recent data, runs no inference and
\* no simulation, and the predictor stays untrained; a predict call on an
\* untrained predictor always attempts the training.
C3_TrainingFailureSurfaced ==
    /\ (last.called_predict /\ last.trace.train_calls = 1 /\ ~last.trace.train_ok) =>
          /\ last.result.none
          /\ last.error = last.trace.train_msg
          /\ last.error # NoMsg
          /\ ~last.trace.fetched_recent
          /\ ~last.trace.inferred
          /\ ~last.trace.simulated
          /\ ~is_trained
    /\ (last.called_predict /\ ~last.before.is_trained) =>
          last.trace.train_calls = 1

\* a second predict call in a row whose training raised
C3_Witness ==
    /\ last.called_predict
    /\ ~last.trace.train_ok
    /\ last.trace.train_msg.prefix = "Training error: "
    /\ trainRuns = 2
    /\ last.status = 500

Prices(run) ==
    [i \in 1..Len(run.predictions) |-> run.predictions[i].predicted_price]

\* C5: two runs of the loop started on the same calendar date with the same
\* symbol, fused signal, base confidence, starting price and horizon give the
\* same predicted_price sequence, whenever each iteration reads the clock.
C5_SameDateSamePrices ==
    \A a, b \in runs :
        (a.symbol = b.symbol /\ a.date = b.date /\ a.days = b.days) =>
            Prices(a) = Prices(b)

\* a run none of whose iterations saw the date change
OnOneDate(run) == run.finished = run.date

\* C6: two runs of the loop that differ only in the calendar date, or only in
\* the symbol, give different predicted_price sequences.
C6_OtherDateOrSymbolOtherPrices ==
    \A a, b \in runs :
        ( /\ OnOneDate(a) /\ OnOneDate(b)
          /\ a.days = b.days
          /\ \/ (a.date # b.date /\ a.symbol = b.symbol)
             \/ (a.date = b.date /\ a.symbol # b.symbol) ) =>
            Prices(a) # Prices(b)

\* C7: in every forecast, each point's confidence lies in [0.45, 1]
\* (thousandths: 450..1000) and the confidence does not increase with the day
\* index, for every confidence get_enhanced_signal or its fallback produces.
C7_ConfidenceDecaysToFloor ==
    forecast.done =>
        \A i \in 1..Len(forecast.predictions) :
            /\ forecast.predictions[i].confidence >= 450
            /\ forecast.predictions[i].confidence <= 1000
            /\ i > 1 => forecast.predictions[i].confidence
                          <= forecast.predictions[i - 1].confidence

\* a 30 day forecast that starts at confidence 1 and ends on the floor
C7_Witness ==
    /\ forecast.done
    /\ forecast.days = MaxDays
    /\ Len(forecast.predictions) = MaxDays
    /\ forecast.predictions[1].confidence = 1000
    /\ forecast.predictions[MaxDays].confidence = 450

\* C8: a successful predict(symbol, N) returns exactly N forecast points, the
\* i-th of which has day index i.
C8_ForecastLength ==
    (last.called_predict /\ ~last.predict_return.result.none) =>
        /\ last.days = IntOf(last.request.days.halves)
        /\ Len(last.predict_return.result.predictions) = last.days
        /\ \A i \in 1..last.days :
              last.predict_return.result.predictions[i].day = i

\* a successful 30 day forecast
C8_Witness ==
    /\ last.ok
    /\ last.days = MaxDays
    /\ Len(last.result.predictions) = MaxDays
    /\ last.result.predictions[MaxDays].day = MaxDays

\* C9: train_model and predict never raise: train_model returns (True,
\* metrics) or (False, a message), predict returns either a result and no
\* error or no result and a message.
C9_ErrorsAreReturned ==
    /\ ~last.trace.train_raised
    /\ ~last.predict_return.raised
    /\ last.trace.train_calls = 1 =>
          \/ /\ last.trace.train_ok
             /\ last.trace.train_msg = NoMsg
             /\ last.trace.train_points >= MinRows
          \/ /\ ~last.trace.train_ok
             /\ last.trace.train_msg.prefix # ""
    /\ last.called_predict =>
          \/ /\ ~last.predict_return.result.none
             /\ last.predict_return.error = NoMsg
          \/ /\ last.predict_return.result.none
             /\ last.predict_return.error.prefix # ""

\* predict turned an exception of the inference into its error message
C9_Witness ==
    /\ last.called_predict
    /\ last.trace.fetched_recent
    /\ last.predict_return.result.none
    /\ last.predict_return.error = Msg("Prediction error: ", "predict")

\* C10: predict_stock answers every request whose days value is below 1 or
\* above 30 with an error, before it calls predict and without any change of
\* the predictor.
C10_OutOfRangeRejected ==
    ( /\ last.op = "predict_stock"
      /\ last.request.body
      /\ ~last.request.days.text
      /\ \/ last.request.days.halves < 2 * MinDays
         \/ last.request.days.halves > 2 * MaxDays ) =>
        /\ last.status # 200
        /\ ~last.called_predict
        /\ last.trace = NoTrace
        /\ Self = last.before

\* C11: train_model returns the insufficient-data error whenever fewer than
\* 50 usable rows remain after feature selection, and then leaves the scaler,
\* the classifier and is_trained as they were; with 50 rows or more it does not
\* return that error.
C11_InsufficientData ==
    (last.trace.train_calls = 1 /\ last.trace.train_rows # NoRows) =>
        /\ last.trace.train_rows < 50 =>
              /\ ~last.trace.train_ok
              /\ last.trace.train_msg = Msg("Insufficient data for training", "")
              /\ scaler = last.before.scaler
              /\ model = last.before.model
              /\ is_trained = last.before.is_trained
        /\ last.trace.train_rows >= 50 =>
              last.trace.train_msg # Msg("Insufficient data for training", "")

\* a direct train_model call that finds 49 usable rows on a trained predictor
C11_Witness ==
    /\ last.op = "train_model"
    /\ last.trace.train_rows = 49
    /\ last.trace.train_msg = Msg("Insufficient data for training", "")
    /\ last.before.is_trained
    /\ is_trained
    /\ model.fitted

----------------------------------------------------------------------------
(* The labels specification: the frame train_model builds from a short      *)
(* series of closes, statement by statement (lines 115 to 122).             *)

\* the longest series
MaxSeries == 3

\* closes in cents: 100.00, and 2 per cent and a cent more than 2 per cent
\* above and below it
ClosePrices == {10000, 10200, 10201, 9800, 9799}

\* the columns whose values are undefined on the first rows of a series
WarmColumns == {"SMA_50"}

LabelsInit ==
    /\ model = NoModel
    /\ scaler = NoScaler
    /\ is_trained = FALSE
    /\ feature_columns = NoColumns
    /\ trainRuns = 0
    /\ hashKey = 0
    /\ clock = 0
    /\ last = NoLast
    /\ sim = NoSim
    /\ runs = {}
    /\ forecast = NoForecast
    /\ threads = NoThreads
    /\ db = NewDb
    /\ \E n \in 2..MaxSeries :
       \E close \in [1..n -> ClosePrices], warm \in 0..1, failAt \in {0, 1, 9} :
         frame = [NoFrame EXCEPT !.stage = "bars", !.close = close,
                                 !.cols = BarColumns,
                                 !.nan = [i \in 1..n |-> {}],
                                 !.warm = warm, !.failAt = failAt]

\* data = self.calculate_technical_indicators(data)
CalculateIndicators ==
    /\ frame.stage = "bars"
    /\ \E cols \in {calculate_technical_indicators(frame.cols, frame.failAt)} :
         frame' = [frame EXCEPT
                     !.stage = "indicators",
                     !.cols = cols,
                     !.nan = [i \in 1..Len(frame.close) |->
                                IF i <= frame.warm THEN WarmColumns \cap cols
                                ELSE {}]]
    /\ UNCHANGED << Predictor, hashKey, clock, sim, runs, forecast, threads, db >>

\* data = self.generate_labels(data)
GenerateLabels ==
    /\ frame.stage = "indicators"
    /\ frame' = [generate_labels(frame) EXCEPT !.stage = "labelled"]
    /\ UNCHANGED << Predictor, hashKey, clock, sim, runs, forecast, threads, db >>

\* X, self.feature_columns = self.prepare_features(data);
\* y = data.loc[X.index, 'Signal']
PrepareFeatures ==
    /\ frame.stage = "labelled"
    /\ \E columns \in {prepare_features(frame.cols)} :
       \E index \in {DropNa(frame, columns)} :
         frame' = [frame EXCEPT
                     !.stage = "selected",
                     !.X_columns = columns,
                     !.X_index = index,
                     !.y = [k \in 1..Len(index) |-> frame.Signal[index[k]]]]
    /\ UNCHANGED << Predictor, hashKey, clock, sim, runs, forecast, threads, db >>

LabelsNext == CalculateIndicators \/ GenerateLabels \/ PrepareFeatures

SpecLabels == LabelsInit /\ [][LabelsNext]_vars

\* C12: generate_labels gives a row class 1 exactly when its price change is
\* above 0.02, class -1 exactly when it is below -0.02 and class 0 otherwise;
\* a change of exactly 0.02 or exactly -0.02 is class 0.
C12_LabelThresholds ==
    frame.stage \in {"labelled", "selected"} =>
        \A i \in 1..Len(frame.close) :
            LET c == frame.close[i]
                known == i + 1 <= Len(frame.close)
                f == IF known THEN frame.close[i + 1] ELSE c
                up == known /\ (f - c) * 100 > 2 * c
                down == known /\ (f - c) * 100 < (0 - 2) * c
            IN  /\ frame.Signal[i] = 1 <=> up
                /\ frame.Signal[i] = 0 - 1 <=> down
                /\ frame.Signal[i] = 0 <=> (~up /\ ~down)
                /\ (c = 10000 /\ known /\ f \in {10200, 9800}) => frame.Signal[i] = 0
                /\ (c = 10000 /\ known /\ f = 10201) => frame.Signal[i] = 1
                /\ (c = 10000 /\ known /\ f = 9799) => frame.Signal[i] = 0 - 1

\* a rise of exactly 2 per cent labelled Hold, followed by a fall labelled Sell
C12_Witness ==
    /\ frame.stage = "labelled"
    /\ frame.close = << 10000, 10200, 9799 >>
    /\ frame.Signal = << 0, 0 - 1, 0 >>

\* C13: the final signal of get_enhanced_signal is Buy exactly when
\* 0.6 * technical_signal + 0.4 * ml_signal >= 0.5, Sell exactly when it is
\* <= -0.5 and Hold otherwise, technical_signal being the mean of the four
\* sub-scores; the all-bullish row with ml_signal 1 gives technical_signal 1.0,
\* combined_signal 1.0 and Buy.  (tech4 is four times technical_signal,
\* combined20 twenty times combined_signal.)
C13_FinalSignalThresholds ==
    (forecast.done /\ ~forecast.details.empty) =>
        LET d == forecast.details
            c == 3 * d.tech4 + 8 * d.ml_signal
            v == forecast.vals
            p == v["Close"]
            Score(buy, sell) == IF buy THEN 1 ELSE IF sell THEN 0 - 1 ELSE 0
        IN  /\ d.tech4 \in (0 - 4)..4
            /\ forecast.failAt = 0 =>
                  d.tech4 =
                    Score(Lt(v["RSI"], 30), Lt(70, v["RSI"]))
                    + Score(Lt(v["MACD_Signal"], v["MACD"]) /\ Lt(0, v["MACD"]),
                            Lt(v["MACD"], v["MACD_Signal"]) /\ Lt(v["MACD"], 0))
                    + Score(Lt(v["SMA_20"], p) /\ Lt(v["SMA_50"], v["SMA_20"]),
                            Lt(p, v["SMA_20"]) /\ Lt(v["SMA_20"], v["SMA_50"]))
                    + Score(Le(p, v["BB_Lower"]), Le(v["BB_Upper"], p))
            /\ d.ml_signal = forecast.prediction
            /\ d.combined20 = c
            /\ forecast.signal = 1 <=> c >= 10
            /\ forecast.signal = 0 - 1 <=> c <= 0 - 10
            /\ forecast.signal = 0 <=> (c > 0 - 10 /\ c < 10)
            /\ ( /\ forecast.vals = BullishRow
                 /\ forecast.failAt = 0
                 /\ forecast.prediction = 1 ) =>
                   (d.tech4 = 4 /\ d.combined20 = 20 /\ forecast.signal = 1)

\* the all-bullish row with ml_signal 1
C13_Witness ==
    /\ forecast.done
    /\ forecast.vals = BullishRow
    /\ forecast.failAt = 0
    /\ forecast.prediction = 1
    /\ forecast.details.tech4 = 4
    /\ forecast.details.combined20 = 20
    /\ forecast.signal = 1

\* C14: the confidence get_enhanced_signal returns is 0.5 * max probability
\* + 0.3 * |technical_signal| + 0.2 * agreement bonus, the bonus being 1 when
\* technical_signal * ml_signal >= 0 and 0.5 otherwise; it lies in [0, 1], and
\* is 0.95 for max probability 0.9, technical_signal 1 and ml_signal 1.
\* (Millionths; the max probability is in thousandths.)
C14_FusedConfidence ==
    (forecast.done /\ ~forecast.details.empty) =>
        LET d == forecast.details
            strength == IF d.tech4 < 0 THEN 0 - d.tech4 ELSE d.tech4
            agree == (d.tech4 >= 0 /\ d.ml_signal >= 0)
                       \/ (d.tech4 <= 0 /\ d.ml_signal <= 0)
        IN  /\ forecast.confidence =
                 500 * forecast.maxp + 75000 * strength
                   + (IF agree THEN 200000 ELSE 100000)
            /\ forecast.confidence >= 0
            /\ forecast.confidence <= 1000000
            /\ (forecast.maxp = 900 /\ d.tech4 = 4 /\ d.ml_signal = 1) =>
                   forecast.confidence = 950000

\* max probability 0.9 against four bearish rules and ml_signal 1: no bonus
C14_Witness ==
    /\ forecast.done
    /\ forecast.vals = BearishRow
    /\ forecast.failAt = 0
    /\ forecast.prediction = 1
    /\ forecast.maxp = 900
    /\ forecast.details.tech4 = 0 - 4
    /\ forecast.confidence = 850000

\* the place of a name in the canonical feature list
CanonicalPlace(name) ==
    CHOOSE i \in 1..Len(FeatureColumnList) : FeatureColumnList[i] = name

\* C15: no row prepare_features returns has an undefined value in a retained
\* column, and the retained columns are exactly the canonical feature names
\* present in the input, in canonical order.
C15_PreparedFeatures ==
    frame.stage = "selected" =>
        /\ \A k \in 1..Len(frame.X_index) :
              /\ frame.X_index[k] \in 1..Len(frame.close)
              /\ \A j \in 1..Len(frame.X_columns) :
                    frame.X_columns[j] \notin frame.nan[frame.X_index[k]]
        /\ {frame.X_columns[j] : j \in 1..Len(frame.X_columns)}
             = {FeatureColumnList[i] : i \in 1..Len(FeatureColumnList)} \cap frame.cols
        /\ \A a, b \in 1..Len(frame.X_columns) :
              a < b => CanonicalPlace(frame.X_columns[a])
                         < CanonicalPlace(frame.X_columns[b])

\* a frame whose first row has an undefined SMA_50: the row is dropped, the
\* nineteen canonical columns are retained
C15_Witness ==
    /\ frame.stage = "selected"
    /\ frame.warm = 1
    /\ "SMA_50" \in frame.nan[1]
    /\ Len(frame.close) = 3
    /\ frame.X_index = << 2, 3 >>
    /\ frame.X_columns = FeatureColumnList

\* C16: in every reachable state the predictor is either untrained or fully
\* trained: the scaler, the classifier and feature_columns all come from one
\* train_model run, on the same rows and the same feature set.
C16_AllOrNothing ==
    is_trained =>
        /\ scaler.fitted
        /\ model.exists
        /\ model.fitted
        /\ scaler.run = model.run
        /\ scaler.sym = model.sym
        /\ scaler.cols = model.cols
        /\ feature_columns = model.cols

\* C17: whenever predict hands a feature row to the scaler, the columns of the
\* row and their order are those retained at training time
\* (self.feature_columns), whatever indicators are available at inference.
C17_InferenceColumns ==
    (last.called_predict /\ last.trace.passed_to_scaler) =>
        /\ last.trace.passed_columns = feature_columns
        /\ last.trace.passed_columns = scaler.cols

----------------------------------------------------------------------------
(* The threads specification: the development server answers each request   *)
(* in a thread of its own (app.run, line 493), and the threads share the    *)
(* predictor.  Each request runs the statements of predict and train_model  *)
(* that read or write the predictor, one statement a step, on data for      *)
(* which nothing fails.                                                     *)

\* the number of request threads
MaxThreads == 2

ThreadIds == 1..MaxThreads

\* a thread that has no request yet
IdleThread ==
    [pc |-> "idle", symbol |-> "", run |-> 0, trained |-> FALSE,
     used_scaler |-> NoScaler, used_model |-> NoModel, inferred |-> FALSE,
     error |-> NoMsg]

\* the statements of train_model from the refit of the scaler to
\* self.is_trained = True, and those of predict from scaler.transform to
\* model.predict
TrainingPcs == {"fit_scaler", "new_model", "fit_model", "mark_trained"}
InferencePcs == {"transform", "predict"}

\* the features of a frame all of whose indicators were computed
AllFeatures == prepare_features(calculate_technical_indicators(BarColumns, 0))

ThreadsInit ==
    /\ model = NoModel
    /\ scaler = NoScaler
    /\ is_trained = FALSE
    /\ feature_columns = NoColumns
    /\ trainRuns = 0
    /\ hashKey = 0
    /\ clock = 0
    /\ last = NoLast
    /\ sim = NoSim
    /\ runs = {}
    /\ forecast = NoForecast
    /\ frame = NoFrame
    /\ threads = [t \in ThreadIds |-> IdleThread]
    /\ db = NewDb

Untouched == << hashKey, clock, last, sim, runs, forecast, frame, db >>

\* a request for a symbol arrives: predictor.predict(symbol, days)
Arrive(t) ==
    /\ threads[t].pc = "idle"
    /\ \E symbol \in Symbols :
         threads' = [threads EXCEPT ![t].pc = "check", ![t].symbol = symbol]
    /\ UNCHANGED << model, scaler, is_trained, feature_columns, trainRuns, Untouched >>

\* if not self.is_trained: success, result = self.train_model(symbol)
CheckTrained(t) ==
    /\ threads[t].pc = "check"
    /\ IF NeedsTraining(Self)
         THEN /\ threads' = [threads EXCEPT ![t].pc = "fit_scaler",
                                            ![t].run = trainRuns + 1,
                                            ![t].trained = TRUE]
              /\ trainRuns' = trainRuns + 1
         ELSE /\ threads' = [threads EXCEPT ![t].pc = "transform"]
              /\ UNCHANGED trainRuns
    /\ UNCHANGED << model, scaler, is_trained, feature_columns, Untouched >>

\* X, self.feature_columns = self.prepare_features(data);
\* X_scaled = self.scaler.fit_transform(X)
FitScaler(t) ==
    /\ threads[t].pc = "fit_scaler"
    /\ feature_columns' = AllFeatures
    /\ scaler' = [fitted |-> TRUE, sym |-> threads[t].symbol,
                  run |-> threads[t].run, cols |-> AllFeatures]
    /\ threads' = [threads EXCEPT ![t].pc = "new_model"]
    /\ UNCHANGED << model, is_trained, trainRuns, Untouched >>

\* self.model = RandomForestClassifier(...)
NewModel(t) ==
    /\ threads[t].pc = "new_model"
    /\ model' = [exists |-> TRUE, fitted |-> FALSE, sym |-> threads[t].symbol,
                 run |-> threads[t].run, cols |-> NoColumns]
    /\ threads' = [threads EXCEPT ![t].pc = "fit_model"]
    /\ UNCHANGED << scaler, is_trained, feature_columns, trainRuns, Untouched >>

\* self.model.fit(X_train, y_train): fits the object self.model names now
FitModel(t) ==
    /\ threads[t].pc = "fit_model"
    /\ model' = [exists |-> TRUE, fitted |-> TRUE, sym |-> threads[t].symbol,
                 run |-> threads[t].run, cols |-> AllFeatures]
    /\ threads' = [threads EXCEPT ![t].pc = "mark_trained"]
    /\ UNCHANGED << scaler, is_trained, feature_columns, trainRuns, Untouched >>

\* self.is_trained = True; train_model returns and predict goes on
SetTrained(t) ==
    /\ threads[t].pc = "mark_trained"
    /\ is_trained' = MarkTrained(Self).is_trained
    /\ threads' = [threads EXCEPT ![t].pc = "transform"]
    /\ UNCHANGED << model, scaler, feature_columns, trainRuns, Untouched >>

\* X_scaled = self.scaler.transform(X)
Transform(t) ==
    /\ threads[t].pc = "transform"
    /\ threads' = [threads EXCEPT
                     ![t].used_scaler = scaler,
                     ![t].pc = IF scaler.fitted THEN "predict" ELSE "done",
                     ![t].error = IF scaler.fitted THEN NoMsg
                                  ELSE Msg("Prediction error: ", "transform")]
    /\ UNCHANGED << model, scaler, is_trained, feature_columns, trainRuns, Untouched >>

\* prediction = self.model.predict(X_scaled)[0]
ModelPredict(t) ==
    /\ threads[t].pc = "predict"
    /\ threads' = [threads EXCEPT
                     ![t].used_model = model,
                     ![t].pc = "done",
                     ![t].inferred = model.fitted,
                     ![t].error = IF model.fitted THEN NoMsg
                                  ELSE Msg("Prediction error: ", "predict")]
    /\ UNCHANGED << model, scaler, is_trained, feature_columns, trainRuns, Untouched >>

ThreadsNext ==
    \E t \in ThreadIds :
        \/ Arrive(t)
        \/ CheckTrained(t)
        \/ FitScaler(t)
        \/ NewModel(t)
        \/ FitModel(t)
        \/ SetTrained(t)
        \/ Transform(t)
        \/ ModelPredict(t)

SpecThreads == ThreadsInit /\ [][ThreadsNext]_vars

\* C18: with several requests in progress, no request is between
\* scaler.transform and model.predict while another is inside train_model
\* between the refit of the scaler and self.is_trained = True, and no
\* inference uses a scaler and a classifier of different training runs.
C18_TrainingExcludesInference ==
    /\ \A a, b \in ThreadIds :
          ~(threads[a].pc \in InferencePcs /\ threads[b].pc \in TrainingPcs)
    /\ \A t \in ThreadIds :
          threads[t].inferred =>
              threads[t].used_scaler.run = threads[t].used_model.run

\* C19: of the requests for one symbol that arrive while no trained model
\* exists, at most one executes train_model.
C19_NoDuplicateTraining ==
    \A a, b \in ThreadIds :
        ( /\ a # b
          /\ threads[a].symbol = threads[b].symbol
          /\ threads[a].trained ) =>
            ~threads[b].trained

\* C20: the rows whose future index is past the end of the series, whose
\* future price is undefined, are not in the training set: no such row is in
\* the X and y train_model hands to the scaler and the classifier.
C20_UnlabelledRowsExcluded ==
    frame.stage = "selected" =>
        \A k \in 1..Len(frame.X_index) :
            /\ frame.X_index[k] + days_ahead <= Len(frame.close)
            /\ "Future_Price" \notin frame.nan[frame.X_index[k]]

\* C21: when the computation of one indicator fails inside
\* calculate_technical_indicators, only the column of that indicator is
\* missing: every other indicator column, those assigned after the failing
\* statement included, is in the frame returned.
C21_OtherIndicatorsProduced ==
    (frame.stage # "none" /\ frame.stage # "bars" /\ frame.failAt # 0) =>
        \A n \in 1..Len(IndicatorSteps) :
            n # frame.failAt => IndicatorSteps[n] \subseteq frame.cols

\* the frame columns of the forecast specification's latest row
ForecastColumns == calculate_technical_indicators(BarColumns, forecast.failAt)

\* an indicator the latest row lacks: its column is absent or its value is
\* undefined
Lacking(name) == name \notin ForecastColumns \/ forecast.vals[name] = NaN

\* C22: in get_enhanced_signal every indicator among RSI, MACD, MACD_Signal,
\* SMA_20, SMA_50, BB_Upper and BB_Lower whose column is absent or whose value
\* is undefined is replaced by its default (50; 0; 0; the price; the price;
\* price * 1.02; price * 0.98): the detail breakdown reports the default and
\* the sub-score of the rule that uses the indicator is 0.
C22_NeutralDefaults ==
    (forecast.done /\ ~forecast.details.empty) =>
        LET d == forecast.details
            s == forecast.signal_scores
            p == forecast.vals["Close"]
        IN  /\ Lacking("RSI") => (d.rsi = 50 /\ s[1] = 0)
            /\ Lacking("MACD") => (d.macd = 0 /\ s[2] = 0)
            /\ Lacking("MACD_Signal") => (d.macd_signal = 0 /\ s[2] = 0)
            /\ Lacking("SMA_20") => (d.sma_20 = p /\ s[3] = 0)
            /\ Lacking("SMA_50") => (d.sma_50 = p /\ s[3] = 0)
            /\ Lacking("BB_Upper") => (d.bb_upper = p + p \div 50 /\ s[4] = 0)
            /\ Lacking("BB_Lower") => (d.bb_lower = p - p \div 50 /\ s[4] = 0)

\* C23: when a step inside get_enhanced_signal raises, the function returns
\* the raw classifier prediction as the signal, the maximal class probability
\* as the confidence and an empty breakdown, and predict goes on to the
\* trajectory loop with these values: it returns a result, not an error,
\* whose signal is the prediction, whose signal_confidence is the maximal
\* probability and whose points carry that confidence decayed.
C23_FusionFallback ==
    /\ (last.called_predict /\ last.trace.fusion_raised) =>
          LET r == last.predict_return
              t == last.trace
          IN  /\ ~r.raised
              /\ r.error = NoMsg
              /\ t.signal_details_empty
              /\ ~r.result.none
              /\ t.simulated
              /\ r.result.signal = t.prediction
              /\ r.result.signal_confidence = t.prediction_proba
              /\ Len(r.result.predictions) = last.days
              /\ \A d \in 1..Len(r.result.predictions) :
                    r.result.predictions[d].confidence =
                        RoundConfidence(DayConfidence(t.prediction_proba * 1000, d))

\* a predict call in which the fusion raised and the raw prediction, Sell at
\* 0.334, differs from what the fusion of the same row would have given
C23_Witness ==
    /\ last.called_predict
    /\ last.trace.fusion_raised
    /\ last.trace.prediction = 0 - 1
    /\ last.trace.signal_details_empty
    /\ ~last.predict_return.result.none
    /\ last.predict_return.result.signal = 0 - 1
    /\ last.predict_return.result.signal_confidence = 334

\* C24: train_model returns a failure in two cases only, the download that
\* returns nothing ("Failed to download stock data") and fewer than 50 usable
\* rows ("Insufficient data for training"); whenever 50 usable rows or more
\* were found the training succeeds, sets is_trained and returns the row count.
C24_TrainingFailsOnlyTwoWays ==
    last.trace.train_calls = 1 =>
        /\ ~last.trace.train_ok =>
              last.trace.train_msg \in
                  { Msg("Failed to download stock data", ""),
                    Msg("Insufficient data for training", "") }
        /\ last.trace.train_rows >= MinRows =>
              /\ last.trace.train_ok
              /\ last.trace.train_points = last.trace.train_rows
              /\ last.op = "train_model" => is_trained

\* C25: for the same symbol, calendar date, fused signal, base confidence and
\* starting price, the forecast for horizon N is a prefix of the forecast for
\* any horizon M >= N: of two runs of the loop on one date, the shorter one's
\* points are the first points of the longer one.
C25_HorizonPrefix ==
    \A a, b \in runs :
        ( /\ a.symbol = b.symbol
          /\ a.date = b.date
          /\ OnOneDate(a) /\ OnOneDate(b)
          /\ a.days <= b.days ) =>
            /\ Len(a.predictions) = a.days
            /\ Len(b.predictions) = b.days
            /\ \A d \in 1..a.days : a.predictions[d] = b.predictions[d]

\* two runs on one date for one symbol, with horizons 2 and 3
C25_Witness ==
    \E a, b \in runs :
        /\ a.symbol = b.symbol
        /\ a.date = b.date
        /\ OnOneDate(a) /\ OnOneDate(b)
        /\ a.days = 2
        /\ b.days = 3

\* C26: when get_enhanced_signal does not fall back, Buy is produced only
\* with ml_signal >= 0 and technical_signal > 0, Sell only with ml_signal <= 0
\* and technical_signal < 0; technical_signal and ml_signal of strictly
\* opposite signs give Hold; and with ml_signal = 0 a Buy or a Sell needs the
\* four sub-scores to agree.
C26_SignalNeedsAgreement ==
    (forecast.done /\ ~forecast.details.empty) =>
        LET d == forecast.details
            s == forecast.signal_scores
        IN  /\ forecast.signal = 1 => (d.ml_signal >= 0 /\ d.tech4 > 0)
            /\ forecast.signal = 0 - 1 => (d.ml_signal <= 0 /\ d.tech4 < 0)
            /\ d.tech4 * d.ml_signal < 0 => forecast.signal = 0
            /\ (d.ml_signal = 0 /\ forecast.signal # 0) =>
                  \A i \in 1..4 : s[i] = forecast.signal

\* the four sub-scores bullish and the classifier neutral: Buy
C26_Witness ==
    /\ forecast.done
    /\ ~forecast.details.empty
    /\ forecast.details.ml_signal = 0
    /\ forecast.signal = 1
    /\ forecast.signal_scores = << 1, 1, 1, 1 >>

\* C27: in every result predict returns for days >= 1, the confidence of
\* forecast day 1 equals the reported signal_confidence (both rounded to three
\* decimals) and no forecast point's confidence exceeds signal_confidence.
C27_ConfidenceBoundedBySignal ==
    (last.called_predict /\ ~last.predict_return.result.none
       /\ last.days >= 1) =>
        LET r == last.predict_return.result
        IN  /\ Len(r.predictions) >= 1
            /\ r.predictions[1].confidence = r.signal_confidence
            /\ \A i \in 1..Len(r.predictions) :
                  r.predictions[i].confidence <= r.signal_confidence

----------------------------------------------------------------------------
(* The portfolio specification: add_to_portfolio calls on the database, one *)
(* after the other.                                                         *)

\* the number of add_to_portfolio calls
MaxCalls == 3

\* what the calls carry
PortfolioSymbols == {"AAPL", "MSFT"}
ShareCounts == {1, 2}
SharePrices == {100, 300}
TransactionTypes == {"BUY", "SELL", "sell"}

PortfolioInit ==
    /\ model = NoModel
    /\ scaler = NoScaler
    /\ is_trained = FALSE
    /\ feature_columns = NoColumns
    /\ trainRuns = 0
    /\ hashKey = 0
    /\ clock = 0
    /\ last = NoLast
    /\ sim = NoSim
    /\ runs = {}
    /\ forecast = NoForecast
    /\ frame = NoFrame
    /\ threads = NoThreads
    /\ db = NewDb

\* one call of portfolio_manager.add_to_portfolio
AddToPortfolio ==
    /\ db.calls < MaxCalls
    /\ \E portfolio_id \in PortfolioIds, symbol \in PortfolioSymbols,
          shares \in ShareCounts, price \in SharePrices,
          transaction_type \in TransactionTypes, raises \in BOOLEAN :
         db' = [add_to_portfolio(db, portfolio_id, symbol, shares, price,
                                 transaction_type, db.calls + 1, raises)
                  EXCEPT !.calls = db.calls + 1]
    /\ UNCHANGED << Predictor, hashKey, clock, sim, runs, forecast, frame,
                    threads >>

PortfolioNext == AddToPortfolio

SpecPortfolio == PortfolioInit /\ [][PortfolioNext]_vars

\* the shares of the transactions of one kind recorded for a holding, from
\* transaction i on
RECURSIVE SharesOf(_, _, _, _, _)
SharesOf(transactions, portfolio_id, symbol, kind, i) ==
    IF i > Len(transactions) THEN 0
    ELSE (IF /\ transactions[i].portfolio_id = portfolio_id
             /\ transactions[i].symbol = symbol
             /\ UpperType(transactions[i].transaction_type) = kind
            THEN transactions[i].shares ELSE 0)
         + SharesOf(transactions, portfolio_id, symbol, kind, i + 1)

\* committed BUY shares minus committed SELL shares
NetShares(portfolio_id, symbol) ==
    SharesOf(db.transactions, portfolio_id, symbol, "BUY", 1)
      - SharesOf(db.transactions, portfolio_id, symbol, "SELL", 1)

\* what the tables hold for every (portfolio_id, symbol)
HoldingsMatchTransactions ==
    \A portfolio_id \in PortfolioIds, symbol \in PortfolioSymbols :
        LET rows == SelectHoldings(db.holdings, portfolio_id, symbol)
        IN  /\ Len(rows) <= 1
            /\ \A i \in 1..Len(rows) :
                  /\ rows[i].shares > 0
                  /\ rows[i].shares = NetShares(portfolio_id, symbol)
            /\ rows = << >> => NetShares(portfolio_id, symbol) = 0

\* a call that answers "Insufficient shares to sell" changes no table
RejectedSellChangesNothing ==
    db'.ret.msg = "Insufficient shares to sell" =>
        /\ db'.holdings = db.holdings
        /\ db'.transactions = db.transactions
        /\ db'.portfolios = db.portfolios

\* C28: after any sequence of add_to_portfolio calls with positive share
\* counts, BUY and SELL, successful or rejected, the holdings table has for
\* every (portfolio_id, symbol) at most one row, its shares are positive and
\* equal the shares of the committed BUY transactions minus those of the
\* committed SELL transactions; and a SELL rejected with "Insufficient shares
\* to sell" leaves holdings and transactions unchanged.
C28_HoldingsMatchTransactions ==
    /\ []HoldingsMatchTransactions
    /\ [][RejectedSellChangesNothing]_vars

\* a SELL of 2 rejected against a holding of 1 that a BUY of 2 and a SELL of 1
\* left
C28_Witness ==
    /\ db.calls = 3
    /\ db.ret.msg = "Insufficient shares to sell"
    /\ Len(db.transactions) = 2
    /\ Len(db.holdings) = 1
    /\ db.holdings[1].shares = 1

====
